---- MODULE Spec2Model ----
(***************************************************************************)
(* Model of gui/js/main.js of LCD-Screenshot: the debounced live-preview   *)
(* refresh (refreshLCD), the generic transport (doAjax,                    *)
(* getHttpRequestObject) and the two response handlers (refreshLCDHandler  *)
(* and the anonymous handler of saveScreenshot).                           *)
(*                                                                         *)
(* The browser is the environment: it owns the timer table, the transport  *)
(* objects and their readyState changes, the DOM and window.token.         *)
(* Execution is single-threaded, so every handler is one atomic action.    *)
(*                                                                         *)
(* JavaScript values: a string is a TLA+ string, except the value of the   *)
(* text input, which is a sequence of one-character strings so that        *)
(* String.split can be computed; undefined is the marker Undefined; an     *)
(* object is a function from its keys to its values.                       *)
(***************************************************************************)
EXTENDS Integers, Sequences, FiniteSets, TLC

\* ------------------------------------------------------------ bounds
\* refreshLCD calls (timer handles issued by setTimeout) in one run
MaxCalls == 2
\* doAjax calls in one run (the one at load included)
MaxAjaxCalls == 3
\* length of the text-input value, in characters
MaxTextLen == 1
\* milliseconds that pass in one step of the clock
TickMs == 250

\* ------------------------------------------------------------ constants
\* main.js:48  const duration = 500; // ms
duration == 500
\* main.js:4   let refreshLCDTimer = null;  (null is falsy, every handle is truthy)
Null == 0
\* XMLHttpRequest.readyState values: OPENED .. DONE
OPENED == 1
DONE == 4
\* main.js:21/67 the only status the handlers take as success
HTTP_OK == 200

Undefined == "<undefined>"
NoHandler == "<undefined>"

VARIABLES
    loaded,          \* the script has run (lines 2 and 4)
    window,          \* host capabilities: window.XMLHttpRequest, window.ActiveXObject
    token,           \* window.token
    textInput,       \* document.getElementById("text-input").value
    lcdExists,       \* document.getElementById("lcd-screenshot-content") is not null
    lcdContent,      \* its innerHTML
    refreshLCDTimer, \* the global of line 4
    timerCount,      \* handles issued by setTimeout so far
    timers,          \* the browser's timer table: pending handle -> ms elapsed
    requests,        \* the transport objects sent so far, in order of send
    alerts,          \* messages shown by alert(), in order
    console,         \* messages logged by console.error, in order
    thrown,          \* kinds of exception that escaped a handler
    callUrl,         \* the url argument of the latest doAjax call
    callerData,      \* the data object its caller passed: before and after the call
    ret,             \* what the call returned
    ajaxCalls,       \* doAjax calls so far
    \* history variables (not program state)
    quiet,           \* ms since the latest refreshLCD call, saturating at duration
    burst,           \* the current burst of refreshLCD calls
    textAtCall,      \* textInput at the latest refreshLCD call (while a timer is pending)
    dirty            \* textInput changed since then (while a timer is pending)

vars == <<loaded, window, token, textInput, lcdExists, lcdContent, refreshLCDTimer,
          timerCount, timers, requests, alerts, console, thrown, callUrl,
          callerData, ret, ajaxCalls, quiet, burst, textAtCall, dirty>>

\* ------------------------------------------------------------ value sets
Chars == {"H", "\n"}
RECURSIVE SeqsUpTo(_)
SeqsUpTo(n) == IF n = 0 THEN {<<>>}
               ELSE LET S == SeqsUpTo(n - 1)
                    IN S \cup {Append(s, c) : s \in {t \in S : Len(t) = n - 1}, c \in Chars}
TextValues == SeqsUpTo(MaxTextLen)
Tokens == {"t1", "t2"}
MarkupA == "<svg>A</svg>"
MarkupB == "<svg>B</svg>"
\* bodies a server may answer a refresh with: nothing, not JSON, {"result": ...}
JsonBody(r) == "{\"result\": \"" \o r \o "\"}"
JsonA == JsonBody(MarkupA)
JsonB == JsonBody(MarkupB)
NotJson == "<html>502</html>"
ResponseTexts == {"", NotJson, JsonA, JsonB}
Statuses == {200, 500}
Min(a, b) == IF a < b THEN a ELSE b


\* ------------------------------------------------------------ pure helpers
\* String.prototype.split with a one-character separator: "" gives [""],
\* leading and trailing separators give empty lines.
RECURSIVE split(_, _)
split(text, sep) ==
    IF text = <<>> THEN << <<>> >>
    ELSE LET before == split(SubSeq(text, 1, Len(text) - 1), sep)
             last == text[Len(text)]
         IN IF last = sep THEN Append(before, <<>>)
            ELSE [before EXCEPT ![Len(before)] = Append(@, last)]

\* mutant of getTextInputAsLines: the value is not split
getTextInputUnsplit(value) == <<value>>

\* main.js:41-45
getTextInputAsLines(value) == split(value, "\n")

\* object with key k set to v (obj.k = v)
SetKey(obj, k, v) == (k :> v) @@ obj
EmptyObject == <<>>

\* JSON.stringify of an object: a snapshot of its own properties; a property
\* whose value is undefined is left out.
JSONstringify(obj) ==
    LET keep == {k \in DOMAIN obj : obj[k] # Undefined}
    IN [k \in keep |-> obj[k]]

\* JSON.parse of a response body: [ok |-> FALSE] is a SyntaxError.
JSONparse(text) ==
    CASE text = JsonA -> [ok |-> TRUE, value |-> ("result" :> MarkupA)]
      [] text = JsonB -> [ok |-> TRUE, value |-> ("result" :> MarkupB)]
      [] OTHER -> [ok |-> FALSE, value |-> EmptyObject]

\* the reason phrase the server sends with a status (0: no response at all)
StatusText(status) ==
    CASE status = 200 -> "OK"
      [] status = 500 -> "Server Error"
      [] OTHER -> ""

\* main.js:86-99: the transport object the host offers, or false
NoTransport == "false"
\* mutant of getHttpRequestObject: the host is not tested for XMLHttpRequest
getHttpRequestObjectUntested(w) == "XMLHttpRequest"

getHttpRequestObject(w) ==
    IF w.XMLHttpRequest THEN "XMLHttpRequest"
    ELSE IF w.ActiveXObject THEN "ActiveXObject"
    ELSE NoTransport

\* main.js:104-108: the argument defaults and the token merged into data.
\* An argument is a string or Undefined; data is <<>> (omitted) or <<object>>.
\* mutant of AjaxUrl: without the default of line 104
AjaxUrlNoDefault(url) == url
\* mutant of AjaxData: the token is the one the page was loaded with
AjaxDataStale(data, tok) ==
    (IF data = <<>> THEN EmptyObject ELSE data[1]) @@ ("token" :> "t1")

AjaxUrl(url) == IF url = Undefined THEN "" ELSE url
AjaxMethod(method) == IF method \in {Undefined, ""} THEN "GET" ELSE method
AjaxData(data, tok) == SetKey(IF data = <<>> THEN EmptyObject ELSE data[1], "token", tok)

\* main.js:102-130: what one doAjax call does, as a record of its effects:
\* the value returned, the alerts shown, the transport objects sent, and the
\* caller's data object after the call.
doAjax(url0, method0, responseHandler, data0) ==
    LET url == AjaxUrl(url0)
        method == AjaxMethod(method0)
        data == AjaxData(data0, token)
        seen == IF data0 = <<>> THEN <<>> ELSE <<data>>
        xmlHttpRequest == getHttpRequestObject(window)
    IN IF url = ""
       THEN [ret |-> "false", alerts |-> <<"URL can not be null/blank">>,
             sent |-> <<>>, data |-> seen]
       ELSE IF xmlHttpRequest # NoTransport
       THEN [ret |-> Undefined, alerts |-> <<>>,
             sent |-> << [url |-> url, method |-> method,
                          contentType |-> IF method = "POST" THEN "application/json"
                                          ELSE Undefined,
                          handler |-> responseHandler,
                          body |-> JSONstringify(data),
                          kind |-> xmlHttpRequest,
                          readyState |-> OPENED, status |-> 0, statusText |-> "",
                          responseText |-> ""] >>,
             data |-> seen]
       ELSE [ret |-> Undefined, alerts |-> <<"Please use browser with Ajax support.!">>,
             sent |-> <<>>, data |-> seen]

\* the state change of the call doAjax(url, method, responseHandler, data)
Ajax(url, method, responseHandler, data) ==
    LET e == doAjax(url, method, responseHandler, data)
    IN /\ requests' = requests \o e.sent
       /\ alerts' = alerts \o e.alerts
       /\ callUrl' = url
       /\ callerData' = [before |-> data, after |-> e.data]
       /\ ret' = e.ret
       /\ ajaxCalls' = ajaxCalls + 1

envVars == <<window, token, textInput, lcdExists>>
timerVars == <<refreshLCDTimer, timerCount, timers>>
histVars == <<quiet, burst, textAtCall, dirty>>

\* ------------------------------------------------------------ initial state
\* hosts: a browser with XMLHttpRequest, one with ActiveXObject only, one with neither
Hosts == { [XMLHttpRequest |-> TRUE, ActiveXObject |-> FALSE],
           [XMLHttpRequest |-> FALSE, ActiveXObject |-> TRUE],
           [XMLHttpRequest |-> FALSE, ActiveXObject |-> FALSE] }
\* a burst: refreshLCD calls each less than duration after the one before.
\* calls: how many; cancelled: timers cleared by them while pending; fired: the
\* handles whose callback ran; sent: the requests those callbacks sent; first:
\* textInput at the first call; token: window.token at the latest call;
\* inflight: the refresh requests that were in flight at the latest call.
NoBurst == [calls |-> 0, cancelled |-> 0, fired |-> {}, sent |-> 0,
            first |-> <<>>, token |-> "t1", inflight |-> {}]

Init ==
    /\ loaded = FALSE
    /\ window \in Hosts
    /\ token = "t1"
    /\ textInput = <<>>
    /\ lcdExists \in BOOLEAN
    /\ lcdContent = ""
    /\ refreshLCDTimer = Null
    /\ timerCount = 0
    /\ timers = <<>>
    /\ requests = <<>>
    /\ alerts = <<>>
    /\ console = <<>>
    /\ thrown = {}
    /\ callUrl = Undefined
    /\ callerData = [before |-> <<>>, after |-> <<>>]
    /\ ret = Undefined
    /\ ajaxCalls = 0
    /\ quiet = duration
    /\ burst = NoBurst
    /\ textAtCall = <<>>
    /\ dirty = FALSE

\* ------------------------------------------------------------ the script
\* main.js:1-4: the script runs: doAjax("/init", "POST"), refreshLCDTimer = null
Load ==
    /\ ~loaded
    /\ loaded' = TRUE
    /\ Ajax("/init", "POST", NoHandler, <<>>)
    /\ refreshLCDTimer' = Null
    /\ UNCHANGED <<envVars, lcdContent, timerCount, timers, console, thrown, histVars>>

\* main.js:47-60: refreshLCD(): clear the timer whose handle is stored, if the
\* stored handle is truthy, and start a new one.  clearTimeout of a handle that
\* is not pending does nothing.
ClearTimeout(table, handle) == [h \in DOMAIN table \ {handle} |-> table[h]]
SetTimeout(table, handle) == (handle :> 0) @@ table

\* mutant of TimersAfterRefreshLCD: the pending timer is not cleared
TimersNotCleared == SetTimeout(timers, timerCount + 1)
\* mutant of TimersAfterRefreshLCD: the test of line 50 is inverted
TimersTestInverted ==
    SetTimeout(IF refreshLCDTimer = Null THEN ClearTimeout(timers, refreshLCDTimer)
               ELSE timers,
               timerCount + 1)

\* mutant of TimersAfterRefreshLCD: with a handle stored, the timer is cleared
\* and none is started
TimersClearedNotRestarted ==
    IF refreshLCDTimer # Null THEN ClearTimeout(timers, refreshLCDTimer)
    ELSE SetTimeout(timers, timerCount + 1)

\* mutant of TimersAfterRefreshLCD: a stored handle is taken for a running
\* timer, and no timer is started when there is none to clear
TimersStaleHandleSkips ==
    IF refreshLCDTimer # Null /\ refreshLCDTimer \notin DOMAIN timers THEN timers
    ELSE SetTimeout(IF refreshLCDTimer # Null THEN ClearTimeout(timers, refreshLCDTimer)
                    ELSE timers,
                    timerCount + 1)

TimersAfterRefreshLCD ==
    SetTimeout(IF refreshLCDTimer # Null THEN ClearTimeout(timers, refreshLCDTimer)
               ELSE timers,
               timerCount + 1)

refreshLCD ==
    /\ loaded
    /\ timerCount < MaxCalls
    /\ timers' = TimersAfterRefreshLCD
    /\ timerCount' = timerCount + 1
    /\ refreshLCDTimer' = timerCount + 1
    /\ quiet' = 0
    /\ textAtCall' = textInput
    /\ dirty' = FALSE
    /\ LET gone == Cardinality(DOMAIN timers \ DOMAIN timers')
           flying == {i \in 1..Len(requests) :
                         /\ requests[i].handler = "refreshLCDHandler"
                         /\ requests[i].readyState < DONE}
       IN burst' = IF quiet < duration
                   THEN [burst EXCEPT !.calls = @ + 1, !.cancelled = @ + gone,
                                      !.token = token, !.inflight = flying]
                   ELSE [NoBurst EXCEPT !.calls = 1, !.first = textInput,
                                        !.token = token, !.inflight = flying]
    /\ UNCHANGED <<loaded, envVars, lcdContent, requests, alerts, console, thrown,
                   callUrl, callerData, ret, ajaxCalls>>

\* main.js:54-59: the timer callback: the text input is read now
\* mutant of RefreshRequest: the lines are those read when refreshLCD was called
RefreshRequestAtCall(value) == "input-data" :> getTextInputAsLines(textAtCall)

RefreshRequest(value) == "input-data" :> getTextInputAsLines(value)

TimerFires(h) ==
    /\ h \in DOMAIN timers
    /\ timers[h] >= duration
    /\ ajaxCalls < MaxAjaxCalls
    /\ timers' = ClearTimeout(timers, h)
    /\ Ajax("/refresh/lcd", "POST", "refreshLCDHandler", <<RefreshRequest(textInput)>>)
    /\ burst' = [burst EXCEPT !.fired = @ \cup {h},
                              !.sent = @ + Len(requests') - Len(requests)]
    /\ textAtCall' = IF timers' = <<>> THEN <<>> ELSE textAtCall
    /\ dirty' = IF timers' = <<>> THEN FALSE ELSE dirty
    /\ UNCHANGED <<loaded, envVars, lcdContent, refreshLCDTimer, timerCount, console,
                   thrown, quiet>>

\* time passes: every pending timer and the quiet clock advance
Tick ==
    /\ loaded
    /\ \/ quiet < duration
       \/ \E h \in DOMAIN timers : timers[h] < duration
    /\ timers' = [h \in DOMAIN timers |-> Min(timers[h] + TickMs, duration)]
    /\ quiet' = Min(quiet + TickMs, duration)
    /\ UNCHANGED <<loaded, envVars, lcdContent, refreshLCDTimer, timerCount, requests,
                   alerts, console, thrown, callUrl, callerData, ret, ajaxCalls, burst,
                   textAtCall, dirty>>


\* ------------------------------------------------------------ save
\* main.js:62-83: saveScreenshot(): the argument is built first; reading
\* innerHTML of a missing container throws before doAjax is called.
\* mutant of SaveRequest: the markup is not read from the container
SaveRequestEmpty(content) == "svg-data" :> ""

SaveRequest(content) == "svg-data" :> content

saveScreenshot ==
    /\ loaded
    /\ IF lcdExists
       THEN /\ ajaxCalls < MaxAjaxCalls
            /\ Ajax("/save/screenshot", "POST", "saveHandler",
                    <<SaveRequest(lcdContent)>>)
            /\ UNCHANGED thrown
       ELSE /\ "TypeError" \notin thrown
            /\ thrown' = thrown \cup {"TypeError"}
            /\ UNCHANGED <<requests, alerts, callUrl, callerData, ret, ajaxCalls>>
    /\ UNCHANGED <<loaded, envVars, lcdContent, timerVars, console, histVars>>

\* a direct call of the global function doAjax: <<url, method, data>>, with
\* each argument omitted, empty or given at least once
DirectCalls == { <<Undefined, Undefined, <<>>>>,
                 <<"", "POST", <<"k" :> "v">>>>,
                 <<" ", "POST", <<>>>>,
                 <<"/init", Undefined, <<"k" :> "v">>>> }

CallDoAjax(url, method, data) ==
    /\ loaded
    /\ ajaxCalls < MaxAjaxCalls
    /\ Ajax(url, method, NoHandler, data)
    /\ UNCHANGED <<loaded, envVars, lcdContent, timerVars, console, thrown, histVars>>

\* ------------------------------------------------------------ responses
\* what a handler does, as a record of its effects
NoEffect == [lcdContent |-> lcdContent, alerts |-> <<>>, console |-> <<>>,
             thrown |-> {}, sent |-> <<>>]

\* mutant of SetInnerHTML: the result is added to the content (innerHTML +=)
AppendInnerHTML(response) ==
    [NoEffect EXCEPT !.lcdContent = lcdContent \o response.value["result"]]

\* innerHTML = response.result
SetInnerHTML(response) ==
    [NoEffect EXCEPT !.lcdContent = IF "result" \in DOMAIN response.value
                                    THEN response.value["result"] ELSE "undefined"]

\* mutant of ShowResult: the container is filled only while it is empty
ShowResultOnce(this) ==
    LET response == JSONparse(this.responseText)
    IN IF this.responseText = "" THEN NoEffect
       ELSE IF ~response.ok THEN [NoEffect EXCEPT !.thrown = {"SyntaxError"}]
       ELSE IF ~lcdExists
       THEN [NoEffect EXCEPT !.console =
                 <<"Could not find element with id 'lcd-screenshot-content'">>]
       ELSE IF lcdContent # "" THEN NoEffect
       ELSE SetInnerHTML(response)

\* mutant of ShowResult: without the test of line 27, the assignment to
\* innerHTML of null throws
ShowResultUnchecked(this) ==
    LET response == JSONparse(this.responseText)
    IN IF this.responseText = "" THEN NoEffect
       ELSE IF ~response.ok THEN [NoEffect EXCEPT !.thrown = {"SyntaxError"}]
       ELSE IF ~lcdExists THEN [NoEffect EXCEPT !.thrown = {"TypeError"}]
       ELSE SetInnerHTML(response)

\* main.js:24-38, with this = the transport object
ShowResult(this) ==
    IF this.responseText = "" THEN NoEffect
    ELSE LET response == JSONparse(this.responseText)
         IN IF ~response.ok THEN [NoEffect EXCEPT !.thrown = {"SyntaxError"}]
            ELSE IF ~lcdExists
            THEN [NoEffect EXCEPT !.console =
                      <<"Could not find element with id 'lcd-screenshot-content'">>]
            ELSE SetInnerHTML(response)

\* mutant of refreshLCDHandler: the status is not tested
refreshLCDHandlerAnyStatus(this) ==
    IF this.readyState # DONE THEN NoEffect ELSE ShowResult(this)

\* mutant of refreshLCDHandler: a response to a request whose input is no
\* longer the value of the text input is dropped
refreshLCDHandlerCurrentOnly(this) ==
    IF this.readyState # DONE \/ this.status # HTTP_OK THEN NoEffect
    ELSE IF this.body["input-data"] # getTextInputAsLines(textInput) THEN NoEffect
    ELSE ShowResult(this)

\* main.js:20-39, with this = the transport object
refreshLCDHandler(this) ==
    IF this.readyState # DONE \/ this.status # HTTP_OK THEN NoEffect
    ELSE ShowResult(this)

\* mutant of saveHandler: a save that failed is sent again
saveHandlerRetry(this) ==
    IF this.readyState # DONE \/ this.status # HTTP_OK
    THEN [NoEffect EXCEPT
              !.alerts = <<"Error saving screenshot " \o ToString(this.status) \o ": "
                           \o this.statusText>>,
              !.sent = IF this.readyState = DONE
                       THEN << [this EXCEPT !.readyState = OPENED, !.status = 0,
                                            !.statusText = "", !.responseText = ""] >>
                       ELSE <<>>]
    ELSE [NoEffect EXCEPT !.alerts = <<"Screenshot saved successfully!">>]

\* mutant of saveHandler: the error alert does not say what failed
saveHandlerNoDetail(this) ==
    IF this.readyState # DONE \/ this.status # HTTP_OK
    THEN [NoEffect EXCEPT !.alerts = <<"Error saving screenshot">>]
    ELSE [NoEffect EXCEPT !.alerts = <<"Screenshot saved successfully!">>]

\* main.js:66-77, with this = the transport object
saveHandler(this) ==
    IF this.readyState # DONE \/ this.status # HTTP_OK
    THEN [NoEffect EXCEPT !.alerts =
              <<"Error saving screenshot " \o ToString(this.status) \o ": "
                \o this.statusText>>]
    ELSE [NoEffect EXCEPT !.alerts = <<"Screenshot saved successfully!">>]

\* the bodies a transport object may hold in ready state rs
BodiesAt(rs) == IF rs = DONE THEN ResponseTexts
                ELSE IF rs = DONE - 1 THEN {"", JsonA}
                ELSE {""}

\* main.js:124: xmlHttpRequest.onreadystatechange = responseHandler
Handle(this) ==
    IF this.handler = "refreshLCDHandler" THEN refreshLCDHandler(this)
    ELSE IF this.handler = "saveHandler" THEN saveHandler(this)
    ELSE NoEffect

\* The browser moves transport object i to ready state rs and calls its
\* onreadystatechange.  The status arrives with the headers (state 2) and stays;
\* a request that fails on the network goes straight to DONE with status 0.
\* responseText is what has arrived of the body: nothing before state 3, any
\* part at state 3 (the whole of a short body included), all of it at DONE; an
\* error response has a body as well.  Only refreshLCDHandler reads it, so it
\* is "" for the other requests.  A transport object
\* without a handler (onreadystatechange = undefined) is referenced by nothing
\* after send and runs no code of the program: it is not followed further.
ReadyStateChange(i, rs, st, text) ==
    /\ i \in 1..Len(requests)
    /\ LET r == requests[i]
           this == [r EXCEPT !.readyState = rs, !.status = st,
                             !.statusText = StatusText(st), !.responseText = text]
           eff == Handle(this)
       IN /\ r.handler # NoHandler
          /\ r.readyState < DONE
          /\ rs \in {r.readyState + 1, DONE}
          /\ IF r.readyState = OPENED
             THEN st \in Statuses \/ (st = 0 /\ rs = DONE)
             ELSE st = r.status
          /\ IF r.handler = "refreshLCDHandler" /\ st # 0
             THEN text \in BodiesAt(rs)
             ELSE text = ""
          /\ requests' = [requests EXCEPT ![i] = this] \o eff.sent
          /\ lcdContent' = eff.lcdContent
          /\ alerts' = alerts \o eff.alerts
          /\ console' = console \o eff.console
          /\ thrown' = thrown \cup eff.thrown
    /\ UNCHANGED <<loaded, envVars, timerVars, callUrl, callerData, ret, ajaxCalls,
                   histVars>>

\* ------------------------------------------------------------ environment
\* window.token (main.js:108 reads it) is renewed by the page: "t1", then "t2"
SetToken(t) ==
    /\ token = "t1"
    /\ t # token
    /\ token' = t
    /\ UNCHANGED <<loaded, window, textInput, lcdExists, lcdContent, timerVars,
                   requests, alerts, console, thrown, callUrl, callerData, ret,
                   ajaxCalls, histVars>>

\* the value of the text input (main.js:42 reads it) changes: one more
\* character is typed
TypeText(v) ==
    /\ loaded
    /\ Len(v) = Len(textInput) + 1
    /\ SubSeq(v, 1, Len(textInput)) = textInput
    /\ textInput' = v
    /\ dirty' = (timers # <<>>)
    /\ UNCHANGED <<loaded, window, token, lcdExists, lcdContent, timerVars, requests,
                   alerts, console, thrown, callUrl, callerData, ret, ajaxCalls, quiet,
                   burst, textAtCall>>

\* ------------------------------------------------------------ specification
\* the program and the browser
Step ==
    \/ Load
    \/ refreshLCD
    \/ \E h \in DOMAIN timers : TimerFires(h)
    \/ Tick
    \/ saveScreenshot
    \/ \E c \in DirectCalls : CallDoAjax(c[1], c[2], c[3])
    \/ \E i \in 1..Len(requests), rs \in OPENED..DONE, st \in Statuses \cup {0},
          text \in ResponseTexts : ReadyStateChange(i, rs, st, text)

\* Spec: the user types; window.token stays as the page set it
Next ==
    \/ Step
    \/ \E v \in TextValues : TypeText(v)

Spec == Init /\ [][Next]_vars

\* SpecToken: the page renews window.token; the text input stays as it is
NextToken ==
    \/ Step
    \/ \E t \in Tokens : SetToken(t)

SpecToken == Init /\ [][NextToken]_vars

\* SpecFair: the debounce alone, with the browser's guarantees: time passes, and
\* a timer whose delay has passed has its callback run.  saveScreenshot and the
\* direct calls are left out: they do not touch the timer, and the calls they
\* would take from MaxAjaxCalls are kept for the timers (1 + MaxCalls calls).
Fire == \E h \in DOMAIN timers : TimerFires(h)

NextFair ==
    \/ Load
    \/ refreshLCD
    \/ Fire
    \/ Tick
    \/ \E v \in TextValues : TypeText(v)
    \/ \E i \in 1..Len(requests), rs \in OPENED..DONE, st \in Statuses \cup {0},
          text \in ResponseTexts : ReadyStateChange(i, rs, st, text)

SpecFair == Init /\ [][NextFair]_vars /\ WF_vars(Tick) /\ WF_vars(Fire)


\* ------------------------------------------------------------ properties
Last(seq) == seq[Len(seq)]
IsRefresh(r) == r.url = "/refresh/lcd"
IsSave(r) == r.url = "/save/screenshot"
\* the host offers a transport, so a doAjax call with a url sends a request
CanSend == window.XMLHttpRequest \/ window.ActiveXObject
\* this step called doAjax and the call sent a request
Sends == Len(requests') = Len(requests) + 1
\* in this step transport object i reached the terminal ready state
Completes(i) == requests[i].readyState # DONE /\ requests'[i].readyState = DONE
\* no request is changed or added in this step
NoResend == Len(requests') = Len(requests)
BodiesKept == \A i \in 1..Len(requests) : requests'[i].body = requests[i].body

\* lines is the line-split of text: joined by line breaks it gives text back,
\* and no line holds a line break
RECURSIVE Join(_)
Join(lines) == IF Len(lines) = 1 THEN lines[1]
               ELSE Join(SubSeq(lines, 1, Len(lines) - 1)) \o <<"\n">> \o Last(lines)
IsLineSplit(lines, text) ==
    /\ Len(lines) >= 1
    /\ Join(lines) = text
    /\ \A k \in 1..Len(lines) : \A j \in 1..Len(lines[k]) : lines[k][j] # "\n"

\* the burst so far: every call but the last had its timer cancelled while
\* pending, no timer but the last call's has fired, nothing is sent while that
\* timer is pending and one request has been sent once it has fired
BurstSoFar ==
    /\ burst.cancelled = burst.calls - 1
    /\ burst.fired \subseteq {refreshLCDTimer}
    /\ burst.sent = Cardinality(burst.fired)
    /\ burst.sent = (IF timers = <<>> THEN 1 ELSE 0)
\* this step is a refreshLCD call that comes the quiet period or more after the
\* one before: the burst of the calls before it is over
BurstEnds == timerCount' = timerCount + 1 /\ quiet >= duration /\ burst.calls >= 1

\* C1 as stated: in a host with a transport, a burst of refreshLCD calls, each
\* less than the quiet period after the one before, sends exactly one request
\* for the whole burst: every call but the last had its timer cancelled, and
\* the last call's timer has fired and sent the request when the burst is over.
C1_AsStated ==
    [][CanSend =>
           /\ burst'.calls >= 1 => BurstSoFar'
           /\ BurstEnds => ( /\ burst.sent = 1
                             /\ burst.fired = {refreshLCDTimer}
                             /\ burst.cancelled = burst.calls - 1 )]_vars

\* C1 as amended: in a host with a transport, a burst of refreshLCD calls, each
\* less than the quiet period after the one before, sends at most one request:
\* every call but the last had its timer cancelled while pending, no timer but
\* the last call's fires, and one request has been sent once it has fired.
\* When the burst is over it has sent one request if its last timer has fired,
\* and none if that timer, due but not yet run, is cleared by the call that
\* starts the next burst.
C1_OneRequestUnlessCleared ==
    [][CanSend =>
           /\ burst'.calls >= 1 => BurstSoFar'
           /\ BurstEnds =>
                  /\ burst.cancelled = burst.calls - 1
                  /\ burst.fired \subseteq {refreshLCDTimer}
                  /\ burst.sent = (IF refreshLCDTimer \in DOMAIN timers THEN 0 ELSE 1)
                  /\ refreshLCDTimer \in DOMAIN timers =>
                         (refreshLCDTimer \notin DOMAIN timers' /\ requests' = requests)]_vars

C1_Witness ==
    /\ CanSend
    /\ burst.calls = 2 /\ burst.cancelled = 1
    /\ burst.sent = 1 /\ timers = <<>>
    /\ IsRefresh(Last(requests))

\* C2: when the text input changes only at the events of a burst, the refresh
\* request sent for the burst carries the line-split of the value the input
\* had at the last event.
C2_PayloadOfLastEvent ==
    [][(Sends /\ IsRefresh(Last(requests')) /\ ~dirty) =>
           IsLineSplit(Last(requests').body["input-data"], textAtCall)]_vars

C2_Witness ==
    /\ burst.calls >= 2 /\ burst.sent = 1
    /\ Len(requests) >= 2
    /\ IsRefresh(Last(requests))
    /\ textInput # burst.first
    /\ Last(requests).body["input-data"] = << <<"H">> >>
    /\ textInput = <<"H">>

\* C3: at most one refresh timer is pending in every reachable state.
C3_OnePendingTimer == Cardinality(DOMAIN timers) <= 1

C3_Witness ==
    /\ burst.cancelled >= 1
    /\ DOMAIN timers = {refreshLCDTimer}

\* C4: when a refresh request reaches DONE with status 200 and the body
\* {"result": r}, and the container exists, the container holds exactly r after
\* the handler, whatever it held before.
C4_ResultShown ==
    [][\A i \in 1..Len(requests) : \A r \in {MarkupA, MarkupB} :
           ( /\ Completes(i) /\ IsRefresh(requests[i])
             /\ requests'[i].status = 200
             /\ requests'[i].responseText = JsonBody(r)
             /\ lcdExists )
           => lcdContent' = r]_vars

C4_Witness ==
    /\ lcdExists
    /\ lcdContent = MarkupB
    /\ \E i, j \in 1..Len(requests) :
           /\ IsRefresh(requests[i]) /\ requests[i].readyState = DONE
           /\ requests[i].status = 200 /\ requests[i].responseText = JsonBody(MarkupA)
           /\ IsRefresh(requests[j]) /\ requests[j].readyState = DONE
           /\ requests[j].status = 200 /\ requests[j].responseText = JsonBody(MarkupB)

\* C5: a save request that reaches DONE with status 200 shows the success
\* alert; one that reaches DONE with another status shows one alert, whose text
\* holds the status code and the status text.
Mentions(msg, status, statusText) ==
    \E lead \in {"Error saving screenshot ", "Error "}, sep \in {": ", " "} :
        msg = lead \o ToString(status) \o sep \o statusText

C5_SaveAlert ==
    [][\A i \in 1..Len(requests) :
           (Completes(i) /\ IsSave(requests[i])) =>
               /\ Len(alerts') = Len(alerts) + 1
               /\ IF requests'[i].status = 200
                  THEN Last(alerts') = "Screenshot saved successfully!"
                  ELSE Mentions(Last(alerts'), requests'[i].status,
                                requests'[i].statusText)]_vars

C5_Witness ==
    \E i, j \in 1..Len(requests) :
        /\ IsSave(requests[i]) /\ requests[i].readyState = DONE
        /\ requests[i].status = 500
        /\ IsSave(requests[j]) /\ requests[j].readyState = DONE
        /\ requests[j].status = 200
        /\ \E a, b \in 1..Len(alerts) :
               /\ alerts[a] = "Error saving screenshot 500: Server Error"
               /\ alerts[b] = "Screenshot saved successfully!"

\* C6: the body of a save request holds, as "svg-data", the content of the
\* container at the call of saveScreenshot, and no text-input lines; no later
\* step, a refresh response included, changes the body of a request sent.
C6_SaveBodyIsSnapshot ==
    [][/\ (Sends /\ IsSave(Last(requests'))) =>
              /\ DOMAIN Last(requests').body = {"svg-data", "token"}
              /\ Last(requests').body["svg-data"] = lcdContent
       /\ BodiesKept]_vars

C6_Witness ==
    \E i, j \in 1..Len(requests) :
        /\ IsSave(requests[i])
        /\ requests[i].body["svg-data"] = ""
        /\ IsRefresh(requests[j]) /\ requests[j].readyState = DONE
        /\ lcdContent = MarkupA

\* the alerts of doAjax for a configuration error (main.js:111 and 128)
NoAjaxAlert == "Please use browser with Ajax support.!"
ConfigAlerts == {"URL can not be null/blank", NoAjaxAlert}
\* the urls that are empty (omitted or ""), and those that are empty or blank
\* (white space only)
EmptyUrls == {Undefined, ""}
BlankUrls == EmptyUrls \cup {" "}
Falsy == {"false", Undefined, ""}

\* C7 as stated: a doAjax call whose url is empty, blank or omitted creates no
\* transport object and sends nothing, shows the configuration alert and
\* returns a falsy value.
C7_AsStated ==
    [][(ajaxCalls' = ajaxCalls + 1 /\ callUrl' \in BlankUrls) =>
           /\ requests' = requests
           /\ \E a \in ConfigAlerts : alerts' = Append(alerts, a)
           /\ ret' \in Falsy]_vars

\* C7 as amended: a doAjax call whose url is empty or omitted creates no
\* transport object and sends nothing, shows the configuration alert and
\* returns false; a url of white space only is not rejected: no configuration
\* alert is shown for it, and in a host with a transport it is sent.
C7_EmptyUrlRejected ==
    [][/\ (ajaxCalls' = ajaxCalls + 1 /\ callUrl' \in EmptyUrls) =>
              /\ requests' = requests
              /\ alerts' = Append(alerts, "URL can not be null/blank")
              /\ ret' = "false"
       /\ (ajaxCalls' = ajaxCalls + 1 /\ callUrl' \in BlankUrls \ EmptyUrls) =>
              /\ (alerts' # alerts => Last(alerts') # "URL can not be null/blank")
              /\ CanSend => (Sends /\ Last(requests').url = callUrl')]_vars

C7_Witness ==
    /\ callUrl = Undefined
    /\ ret = "false"
    /\ CanSend
    /\ Len(requests) = 1
    /\ Last(alerts) = "URL can not be null/blank"

\* C8: every request doAjax sends carries the token window.token has at that
\* doAjax call (for a refresh: when the timer fires), and no later step changes
\* the token of a request sent.
C8_TokenOfTheCall ==
    [][/\ Sends => ( /\ "token" \in DOMAIN Last(requests').body
                     /\ Last(requests').body["token"] = token )
       /\ \A i \in 1..Len(requests) :
              requests'[i].body["token"] = requests[i].body["token"]]_vars

C8_Witness ==
    /\ refreshLCDTimer \in burst.fired
    /\ burst.token = "t1"
    /\ Len(requests) >= 2
    /\ IsRefresh(Last(requests))
    /\ Last(requests).body["token"] = "t2"
    /\ requests[1].body["token"] = "t1"
    /\ token = "t2"

\* C9: the container changes only in a step in which a refresh request reaches
\* DONE with status 200; a ready-state change of a refresh request to another
\* state, or to DONE with another status, leaves the container as it is, shows
\* no alert and sends no request.
C9_OnlyTerminalSuccess ==
    [][/\ lcdContent' # lcdContent =>
              \E i \in 1..Len(requests) :
                  /\ Completes(i) /\ IsRefresh(requests[i])
                  /\ requests'[i].status = 200
       /\ \A i \in 1..Len(requests) :
              ( /\ IsRefresh(requests[i])
                /\ requests'[i].readyState # requests[i].readyState
                /\ ~(requests'[i].readyState = DONE /\ requests'[i].status = 200) )
              => /\ lcdContent' = lcdContent
                 /\ alerts' = alerts
                 /\ console' = console
                 /\ thrown' = thrown
                 /\ NoResend]_vars

C9_Witness ==
    /\ lcdExists
    /\ lcdContent = ""
    /\ alerts = <<>>
    /\ \E i, j \in 1..Len(requests) :
           /\ IsRefresh(requests[i]) /\ requests[i].readyState = DONE
           /\ requests[i].status = 500 /\ requests[i].responseText = JsonA
           /\ IsRefresh(requests[j]) /\ requests[j].readyState = DONE - 1
           /\ requests[j].status = 200 /\ requests[j].responseText = JsonA

\* C10 as stated: whenever a refresh request reaches DONE with status 200 and
\* the container does not exist, the handler logs an error, changes nothing,
\* throws nothing and sends nothing.
MissingElementLog == "Could not find element with id 'lcd-screenshot-content'"

C10_AsStated ==
    [][\A i \in 1..Len(requests) :
           ( /\ Completes(i) /\ IsRefresh(requests[i])
             /\ requests'[i].status = 200
             /\ ~lcdExists )
           => /\ console' = Append(console, MissingElementLog)
              /\ thrown' = thrown
              /\ lcdContent' = lcdContent
              /\ NoResend]_vars

\* C10 as amended: when a refresh request reaches DONE with status 200 and a
\* body that is JSON, and the container does not exist, the handler logs an
\* error, changes nothing, throws nothing and sends nothing.
C10_MissingContainerLogged ==
    [][\A i \in 1..Len(requests) :
           ( /\ Completes(i) /\ IsRefresh(requests[i])
             /\ requests'[i].status = 200
             /\ requests'[i].responseText \in {JsonBody(MarkupA), JsonBody(MarkupB)}
             /\ ~lcdExists )
           => /\ console' = Append(console, MissingElementLog)
              /\ thrown' = thrown
              /\ lcdContent' = lcdContent
              /\ alerts' = alerts
              /\ NoResend]_vars

C10_Witness ==
    /\ ~lcdExists
    /\ console = <<MissingElementLog>>
    /\ thrown = {}
    /\ lcdContent = ""
    /\ \E i \in 1..Len(requests) :
           /\ IsRefresh(requests[i]) /\ requests[i].readyState = DONE
           /\ requests[i].status = 200 /\ requests[i].responseText = JsonB

\* C11: in a host that offers no transport, a doAjax call with a url that is
\* not empty shows the alert of line 128 and nothing else and sends no request;
\* no transport object ever exists, so no response handler ever runs: the
\* container, the console and the exceptions of the handlers stay as they were.
C11_NoTransportNoRequest ==
    [][~CanSend =>
           /\ (ajaxCalls' = ajaxCalls + 1 /\ AjaxUrl(callUrl') # "")
                  => alerts' = Append(alerts, NoAjaxAlert)
           /\ requests' = <<>>
           /\ lcdContent' = lcdContent
           /\ console' = console
           /\ thrown' \subseteq thrown \cup {"TypeError"}]_vars

C11_Witness ==
    /\ ~CanSend
    /\ callUrl = "/refresh/lcd"
    /\ burst.fired = {refreshLCDTimer}
    /\ burst.sent = 0
    /\ requests = <<>>
    /\ Len(alerts) >= 2
    /\ alerts[1] = NoAjaxAlert
    /\ Last(alerts) = NoAjaxAlert

\* C12: handling the same successful refresh response a second time leaves the
\* container as the first handling left it: when a refresh request was handled
\* at DONE with status 200 and the body {"result": r}, and another refresh
\* request reaches DONE with status 200 and the same body, the container holds
\* r afterwards, and is not changed by the step if it still held r.
C12_SameResultIdempotent ==
    [][\A i, j \in 1..Len(requests) : \A r \in {MarkupA, MarkupB} :
           ( /\ i # j
             /\ IsRefresh(requests[j]) /\ requests[j].readyState = DONE
             /\ requests[j].status = HTTP_OK
             /\ requests[j].responseText = JsonBody(r)
             /\ lcdExists
             /\ Completes(i) /\ IsRefresh(requests[i])
             /\ requests'[i].status = HTTP_OK
             /\ requests'[i].responseText = requests[j].responseText )
           => /\ lcdContent' = r
              /\ lcdContent = r => lcdContent' = lcdContent]_vars

C12_Witness ==
    /\ lcdExists
    /\ lcdContent = MarkupA
    /\ \E i, j \in 1..Len(requests) :
           /\ i # j
           /\ IsRefresh(requests[i]) /\ IsRefresh(requests[j])
           /\ requests[i].readyState = DONE /\ requests[j].readyState = DONE
           /\ requests[i].status = HTTP_OK /\ requests[j].status = HTTP_OK
           /\ requests[i].responseText = JsonA
           /\ requests[j].responseText = JsonA
           /\ requests[i].body = requests[j].body

\* C13: responses are routed in the order they arrive, whatever the order the
\* requests were sent in: when refresh request A was sent before refresh
\* request B, B's response was handled at DONE with status 200, and then A
\* reaches DONE with status 200 and the body {"result": r}, the container holds
\* A's result r afterwards.
C13_StaleResponseShown ==
    [][\A a, b \in 1..Len(requests) : \A r \in {MarkupA, MarkupB} :
           ( /\ a < b
             /\ IsRefresh(requests[a]) /\ IsRefresh(requests[b])
             /\ requests[b].readyState = DONE /\ requests[b].status = HTTP_OK
             /\ Completes(a)
             /\ requests'[a].status = HTTP_OK
             /\ requests'[a].responseText = JsonBody(r)
             /\ lcdExists )
           => lcdContent' = r]_vars

\* A (input "") and B (input "H", the value now) are the only refresh requests,
\* both were handled, and the container shows A's result
C13_Witness ==
    /\ lcdExists
    /\ textInput = <<"H">>
    /\ lcdContent = MarkupA
    /\ \E a, b \in 1..Len(requests) :
           /\ a < b
           /\ {i \in 1..Len(requests) : IsRefresh(requests[i])} = {a, b}
           /\ requests[a].body["input-data"] = << <<>> >>
           /\ requests[b].body["input-data"] = << <<"H">> >>
           /\ requests[a].readyState = DONE /\ requests[a].status = HTTP_OK
           /\ requests[b].readyState = DONE /\ requests[b].status = HTTP_OK
           /\ requests[a].responseText = JsonA
           /\ requests[b].responseText = JsonB

\* C14: a save request shows a notification only when it reaches DONE: a
\* ready-state change of a save request to a state before DONE shows no alert,
\* and the change to DONE shows exactly one (the success alert when the status
\* is 200), so one save request shows one alert in all and a save that ends
\* with status 200 never shows an error alert.
C14_AsStated ==
    [][\A i \in 1..Len(requests) :
           ( /\ IsSave(requests[i])
             /\ requests'[i].readyState # requests[i].readyState )
           => IF requests'[i].readyState = DONE
              THEN /\ Len(alerts') = Len(alerts) + 1
                   /\ requests'[i].status = HTTP_OK
                          => Last(alerts') = "Screenshot saved successfully!"
              ELSE alerts' = alerts]_vars

\* C15: a doAjax call that ends in a configuration error (no url, or no
\* transport in the host) changes nothing but the alerts: no request, nothing
\* in the DOM, and the data object its caller passed is after the call what it
\* was before, with no token set in it.
ConfigError(url) == AjaxUrl(url) = "" \/ ~CanSend

C15_AsStated ==
    [][(ajaxCalls' = ajaxCalls + 1 /\ ConfigError(callUrl')) =>
           /\ callerData'.after = callerData'.before
           /\ requests' = requests
           /\ lcdContent' = lcdContent
           /\ console' = console
           /\ thrown' = thrown]_vars

\* C16: when the text input changed after the latest refreshLCD call and no
\* refreshLCD call followed, the request the timer sends carries the line-split
\* of the value the input has when the timer fires, not of the value it had at
\* the call.
C16_ReadAtFiring ==
    [][(Sends /\ IsRefresh(Last(requests')) /\ dirty) =>
           /\ IsLineSplit(Last(requests').body["input-data"], textInput)
           /\ ~IsLineSplit(Last(requests').body["input-data"], textAtCall)]_vars

\* one refreshLCD call, made while the input was empty; its request carries
\* the line break typed afterwards
C16_Witness ==
    /\ timerCount = 1
    /\ burst.calls = 1 /\ burst.first = <<>>
    /\ burst.fired = {1} /\ burst.sent = 1
    /\ textInput = <<"\n">>
    /\ Len(requests) >= 2
    /\ IsRefresh(Last(requests))
    /\ Last(requests).body["input-data"] = << <<>>, <<>> >>

\* C17: a refreshLCD call changes no request and not the container, and the
\* only timer it clears is the pending one whose handle is stored; when the
\* stored handle is stale (its timer has fired), the call clears nothing and
\* starts a fresh timer.  A refresh request that was in flight at the call and
\* then reaches DONE with status 200 and the body {"result": r} still sets the
\* container to r.
StaleHandle == refreshLCDTimer # Null /\ refreshLCDTimer \notin DOMAIN timers

C17_OnlyTheTimerCancelled ==
    [][/\ timerCount' = timerCount + 1 =>
              /\ requests' = requests
              /\ lcdContent' = lcdContent
              /\ DOMAIN timers \ DOMAIN timers' = DOMAIN timers \cap {refreshLCDTimer}
              /\ StaleHandle =>
                     /\ refreshLCDTimer' # refreshLCDTimer
                     /\ timers' = SetTimeout(timers, refreshLCDTimer')
       /\ \A i \in burst.inflight : \A r \in {MarkupA, MarkupB} :
              ( /\ Completes(i)
                /\ requests'[i].status = HTTP_OK
                /\ requests'[i].responseText = JsonBody(r)
                /\ lcdExists )
              => lcdContent' = r]_vars

\* the second call was made while the request of the first timer was in
\* flight; its timer is pending and the response has been shown meanwhile
C17_Witness ==
    /\ lcdExists
    /\ timerCount = 2 /\ refreshLCDTimer = 2
    /\ DOMAIN timers = {2}
    /\ burst.cancelled = 0
    /\ \E i \in burst.inflight :
           /\ requests[i].readyState = DONE /\ requests[i].status = HTTP_OK
           /\ requests[i].responseText = JsonA
           /\ lcdContent = MarkupA

\* C18: after every step the requests sent are as many as the doAjax calls
\* that passed both configuration checks; a call that passes them sends exactly
\* one request, a step that calls doAjax not at all sends none (whatever
\* response it handles), and a request sent stays the transport object it was,
\* with its url and its body.
Rejected == Cardinality({k \in 1..Len(alerts) : alerts[k] \in ConfigAlerts})

C18_OneRequestPerCall ==
    [][/\ Len(requests') = ajaxCalls' - Rejected'
       /\ (ajaxCalls' = ajaxCalls + 1 /\ ~ConfigError(callUrl')) => Sends
       /\ ajaxCalls' = ajaxCalls => NoResend
       /\ \A i \in 1..Len(requests) :
              /\ requests'[i].url = requests[i].url
              /\ requests'[i].kind = requests[i].kind
              /\ requests'[i].body = requests[i].body]_vars

\* three calls, one rejected for its url, one a save that ended with 500 and
\* was not sent again
C18_Witness ==
    /\ CanSend
    /\ ajaxCalls = 3 /\ Rejected = 1
    /\ Len(requests) = 2
    /\ requests[1].url = "/init"
    /\ IsSave(requests[2])
    /\ requests[2].readyState = DONE /\ requests[2].status = 500
    /\ Last(alerts) = "URL can not be null/blank"

\* C19: with time passing and due timers run, every refreshLCD call is followed
\* by a state in which no timer is pending, the timer of the latest call has
\* fired and, in a host with a transport, its /refresh/lcd request has been
\* sent.
Served ==
    /\ timers = <<>>
    /\ refreshLCDTimer \in burst.fired
    /\ CanSend => (burst.sent = 1 /\ IsRefresh(Last(requests)))

C19_TimerEventuallyFires == (timerCount > 0) ~> Served

\* two calls more than the quiet period apart: each had its own timer fire and
\* its own request sent
C19_Witness ==
    /\ CanSend
    /\ timerCount = 2 /\ burst.calls = 1 /\ burst.fired = {2}
    /\ timers = <<>>
    /\ Len(requests) = 3
    /\ IsRefresh(requests[2]) /\ IsRefresh(requests[3])

====
